---- MODULE Spec2Model ----
(***************************************************************************)
(* Team assignment and state reconciliation of the TeamDivider component.  *)
(*                                                                         *)
(* JavaScript strings that the code transforms (participant names, payment *)
(* method, gender, phone) are sequences of one-character strings, so that  *)
(* toLowerCase, trim and includes are computed, not assumed.  Column names *)
(* are TLA+ strings; the marker each one contains is tabulated in          *)
(* ColumnIncludes.  The entries of COORDINADORES_FIJOS are abbreviated to  *)
(* the initials of their first and last word, case kept.                   *)
(* A JavaScript object used as a map is a function whose domain is its set *)
(* of keys; null / undefined is the empty sequence and a present value v   *)
(* is <<v>> wherever the code distinguishes the two.                       *)
(***************************************************************************)
EXTENDS Integers, Sequences, FiniteSets, TLC

VARIABLES
  callArgs,      \* assignTeams harness: [participants, headers, existingAssignments]
  callResult,    \* assignTeams harness: <<>> before the call, <<returned, locals>> after
  GITHUB_TOKEN,  \* whether import.meta.env.VITE_GITHUB_TOKEN is set
  sheet,         \* how many rows of SyncRows the Google Sheet holds so far
  gist,          \* the remote document: content of team-assignments.json
  lsAttendance,  \* localStorage[ATTENDANCE_KEY]: absent, JSON of a map, or other text
  teams,         \* React state teams: <<>> (null) or <<rosters>>
  loading,       \* React state loading
  error,         \* React state error: <<>> (null) or <<message>>
  attendance,    \* React state attendance
  headers,       \* React state headers
  participants,  \* React state participants
  pc,            \* position of the running async handler, "idle" when none
  run,           \* locals of the running handler and what it has done so far
  lastRun,       \* the last completed sync run (inputs read, outputs produced)
  inflight,      \* PATCH requests of toggleAttendance not yet answered
  remoteReads,   \* whether a GET of the gist was ever issued
  remoteWrites,  \* whether a PATCH of the gist was ever issued
  ops,           \* how many user and sheet events have happened
  alerts         \* the alert() dialogs shown so far, by cause

vars == <<callArgs, callResult, GITHUB_TOKEN, sheet, gist, lsAttendance, teams,
          loading, error, attendance, headers, participants, pc, run, lastRun,
          inflight, remoteReads, remoteWrites, ops, alerts>>

harnessVars == <<callArgs, callResult>>
componentVars == <<GITHUB_TOKEN, sheet, gist, lsAttendance, teams, loading, error,
                   attendance, headers, participants, pc, run, lastRun,
                   inflight, remoteReads, remoteWrites, ops, alerts>>

(***************************************************************************)
(* Bounds                                                                  *)
(***************************************************************************)
MaxRoster == 3
MaxBatch == 5
MaxSheet == 3
MaxInflight == 1
MaxOps == 1
MaxLoadOps == 3
MaxToggles == 2
MaxWindow == 2

(***************************************************************************)
(* Strings                                                                 *)
(***************************************************************************)
LowerChar(c) ==
  CASE c = "A" -> "a"
    [] c = "B" -> "b"
    [] c = "D" -> "d"
    [] c = "F" -> "f"
    [] c = "H" -> "h"
    [] c = "S" -> "s"
    [] c = "T" -> "t"
    [] OTHER -> c

toLowerCase(s) == [i \in 1..Len(s) |-> LowerChar(s[i])]

RECURSIVE trimStart(_)
trimStart(s) == IF s # <<>> /\ Head(s) = " " THEN trimStart(Tail(s)) ELSE s

RECURSIVE trimEnd(_)
trimEnd(s) ==
  IF s # <<>> /\ s[Len(s)] = " " THEN trimEnd(SubSeq(s, 1, Len(s) - 1)) ELSE s

trim(s) == trimEnd(trimStart(s))

includes(s, t) ==
  \E i \in 0..(Len(s) - Len(t)) : SubSeq(s, i + 1, i + Len(t)) = t

(***************************************************************************)
(* Maps (JavaScript objects)                                               *)
(***************************************************************************)
EmptyMap == <<>>

Put(m, k, v) == [x \in (DOMAIN m) \cup {k} |-> IF x = k THEN v ELSE m[x]]

\* { ...a, ...b }
Spread(a, b) ==
  [x \in (DOMAIN a) \cup (DOMAIN b) |-> IF x \in DOMAIN b THEN b[x] ELSE a[x]]

\* the truthiness test `if (m[k])` on a map of strings
Truthy(m, k) == k \in DOMAIN m /\ m[k] # ""

\* p[col] || ''
Field(p, col) == IF col \in DOMAIN p THEN p[col] ELSE <<>>

(***************************************************************************)
(* Configuration                                                           *)
(***************************************************************************)
TEAM_NAMES == <<"Rojo", "Azul", "Verde", "Amarillo">>

TeamSet == {TEAM_NAMES[i] : i \in 1..Len(TEAM_NAMES)}

RoundRobinModulus == 4

\* COORDINADORES_FIJOS, in the order of Object.keys / Object.entries
COORDINADORES_FIJOS ==
  << << <<"f", " ", "h">>, "Rojo" >>,       \* 'filadelfia huallpa'
     << <<"r", " ", "t">>, "Rojo" >>,       \* 'rieles onarry tereba'
     << <<"m", " ", "b">>, "Amarillo" >>,   \* 'maria magdalena bustillos'
     << <<"j", " ", "c">>, "Amarillo" >>,   \* 'jose luis calle'
     << <<"a", " ", "v">>, "Verde" >>,      \* 'ana maria villarpando'
     << <<"i", " ", "q">>, "Verde" >>,      \* 'israel condori quispe'
     << <<"D", " ", "A">>, "Azul" >>,       \* 'Diana Rodas Aguilar'
     << <<"s", " ", "b">>, "Azul" >> >>     \* 'santos bustillos'

(***************************************************************************)
(* Columns                                                                 *)
(***************************************************************************)
ColNombre == "NOMBRE Y APELLIDO"
ColGenero == "SELECCIONA TU GENERO"
ColPago == "FORMA DE PAGO"
ColCelular == "ESCRIBE TU NUMERO DE CELULAR"

\* h.toLowerCase().includes(marker), tabulated for the column names above
ColumnIncludes(h, marker) ==
  <<h, marker>> \in { <<ColNombre, "nombre">>, <<ColNombre, "apellido">>,
                      <<ColPago, "forma de pago">>, <<ColPago, "pago">>,
                      <<ColCelular, "celular">> }

\* Array.prototype.find on the headers: <<>> (undefined) or <<first match>>
\* hits: the indices of the headers the callback accepts
FindHeader(hs, hits) ==
  IF hits = {} THEN <<>>
  ELSE << hs[CHOOSE i \in hits : \A j \in hits : i <= j] >>

\* JSON.stringify(participant): the values in column order between braces
RECURSIVE StringifyFrom(_, _, _)
StringifyFrom(p, hs, i) ==
  IF i > Len(hs) THEN <<"}">>
  ELSE Field(p, hs[i]) \o <<",">> \o StringifyFrom(p, hs, i + 1)

Stringify(p, hs) == <<"{">> \o StringifyFrom(p, hs, 1)

IsNameColumn(h) == ColumnIncludes(h, "nombre") /\ ColumnIncludes(h, "apellido")
IsPhoneColumn(h) == ColumnIncludes(h, "celular") \/ ColumnIncludes(h, "telefono")
IsPagoColumn(h) == ColumnIncludes(h, "forma de pago") \/ ColumnIncludes(h, "pago")

\* getParticipantKey without the toLowerCase() of the name
getParticipantKeySinLower(participant, hs) ==
  LET nameField == FindHeader(hs, {i \in 1..Len(hs) : IsNameColumn(hs[i])})
      phoneField == FindHeader(hs, {i \in 1..Len(hs) : IsPhoneColumn(hs[i])})
  IN  IF nameField # <<>> /\ Field(participant, nameField[1]) # <<>>
        THEN trim(Field(participant, nameField[1]))
      ELSE IF phoneField # <<>> /\ Field(participant, phoneField[1]) # <<>>
        THEN trim(Field(participant, phoneField[1]))
      ELSE IF hs # <<>> /\ Field(participant, hs[1]) # <<>>
        THEN trim(Field(participant, hs[1]))
      ELSE trim(Stringify(participant, hs))

getParticipantKey(participant, hs) ==
  LET nameField == FindHeader(hs, {i \in 1..Len(hs) : IsNameColumn(hs[i])})
      phoneField == FindHeader(hs, {i \in 1..Len(hs) : IsPhoneColumn(hs[i])})
  IN  IF nameField # <<>> /\ Field(participant, nameField[1]) # <<>>
        THEN toLowerCase(trim(Field(participant, nameField[1])))
      ELSE IF phoneField # <<>> /\ Field(participant, phoneField[1]) # <<>>
        THEN trim(Field(participant, phoneField[1]))
      ELSE IF hs # <<>> /\ Field(participant, hs[1]) # <<>>
        THEN trim(Field(participant, hs[1]))
      ELSE trim(Stringify(participant, hs))

(***************************************************************************)
(* assignTeams                                                             *)
(***************************************************************************)
Staff == <<"s", "t", "a", "f", "f">>
Masculino == <<"m", "a", "s", "c", "u", "l", "i", "n", "o">>
Hombre == <<"h", "o", "m", "b", "r", "e">>
Femenino == <<"f", "e", "m", "e", "n", "i", "n", "o">>
Mujer == <<"m", "u", "j", "e", "r">>

formaPagoColumn(hs) == FindHeader(hs, {i \in 1..Len(hs) : IsPagoColumn(hs[i])})

\* the negation of the filter callback: the record is excluded as staff
IsStaff(p, hs) ==
  /\ formaPagoColumn(hs) # <<>>
  /\ includes(toLowerCase(Field(p, formaPagoColumn(hs)[1])), Staff)

\* the filter with a case-sensitive test for 'staff'
participantesFiltradosCaseSensitive(ps, hs) ==
  SelectSeq(ps, LAMBDA p : ~(/\ formaPagoColumn(hs) # <<>>
                             /\ includes(Field(p, formaPagoColumn(hs)[1]), Staff)))

participantesFiltrados(ps, hs) == SelectSeq(ps, LAMBDA p : ~IsStaff(p, hs))

\* the entries of COORDINADORES_FIJOS the name of p contains, by index
CoordMatches(p) ==
  LET nombreLower == toLowerCase(Field(p, ColNombre))
  IN  {i \in 1..Len(COORDINADORES_FIJOS) :
         includes(nombreLower, toLowerCase(COORDINADORES_FIJOS[i][1]))}

esCoordinador(p) == CoordMatches(p) # {}

\* the find whose result carries, as its second component, a name that is no
\* group
equipoFijoSinGrupo(p) ==
  << COORDINADORES_FIJOS[CHOOSE i \in CoordMatches(p) :
                            \A j \in CoordMatches(p) : i <= j][1],
     "coordinador" >>

\* Object.entries(COORDINADORES_FIJOS).find(...): the first matching entry
equipoFijo(p) ==
  COORDINADORES_FIJOS[CHOOSE i \in CoordMatches(p) :
                         \A j \in CoordMatches(p) : i <= j]

coordinadores(ps, hs) ==
  SelectSeq(participantesFiltrados(ps, hs), LAMBDA p : esCoordinador(p))

otrosParticipantes(ps, hs) ==
  SelectSeq(participantesFiltrados(ps, hs), LAMBDA p : ~esCoordinador(p))

\* the coordinator loop writing a key only when the map has none for it
RECURSIVE asignarCoordinadoresSiFalta(_, _, _)
asignarCoordinadoresSiFalta(assignments, cs, hs) ==
  IF cs = <<>> THEN assignments
  ELSE asignarCoordinadoresSiFalta(
         IF getParticipantKey(Head(cs), hs) \in DOMAIN assignments THEN assignments
         ELSE Put(assignments, getParticipantKey(Head(cs), hs),
                  equipoFijo(Head(cs))[2]),
         Tail(cs), hs)

RECURSIVE asignarCoordinadores(_, _, _)
asignarCoordinadores(assignments, cs, hs) ==
  IF cs = <<>> THEN assignments
  ELSE asignarCoordinadores(
         Put(assignments, getParticipantKey(Head(cs), hs), equipoFijo(Head(cs))[2]),
         Tail(cs), hs)

\* assignments after the fixed coordinators are written into it
conCoordinadores(ps, hs, existingAssignments) ==
  asignarCoordinadores(existingAssignments, coordinadores(ps, hs), hs)

\* the split that sends every non-coordinator to the balancing pass
otrosNoAsignadosTodos(ps, hs, existingAssignments) == otrosParticipantes(ps, hs)

otrosNoAsignados(ps, hs, existingAssignments) ==
  LET assignments == conCoordinadores(ps, hs, existingAssignments)
  IN  SelectSeq(otrosParticipantes(ps, hs),
                LAMBDA p : ~Truthy(assignments, getParticipantKey(p, hs)))

genero(p) == trim(toLowerCase(Field(p, ColGenero)))

esHombre(p) ==
  includes(genero(p), Masculino) \/ includes(genero(p), Hombre) \/ genero(p) = <<"m">>

esMujer(p) ==
  /\ ~esHombre(p)
  /\ includes(genero(p), Femenino) \/ includes(genero(p), Mujer) \/ genero(p) = <<"f">>

hombres(batch) == SelectSeq(batch, LAMBDA p : esHombre(p))
mujeres(batch) == SelectSeq(batch, LAMBDA p : esMujer(p))
otros(batch) == SelectSeq(batch, LAMBDA p : ~esHombre(p) /\ ~esMujer(p))

\* every order the Fisher-Yates loop can leave the array in
shuffle(arr) ==
  LET n == Len(arr)
      bij == {f \in [1..n -> 1..n] : \A i, j \in 1..n : f[i] = f[j] => i = j}
  IN  {[i \in 1..n |-> arr[f[i]]] : f \in bij}

\* one shuffle of the whole batch in place of one per cohort
allShuffledSinCohortes(batch) == shuffle(batch)

\* the values allShuffled can take
allShuffledChoices(batch) ==
  {a \o b \o c : a \in shuffle(hombres(batch)), b \in shuffle(mujeres(batch)),
                 c \in shuffle(otros(batch))}

\* the round robin cycling over one group fewer
RECURSIVE roundRobinShort(_, _, _, _)
roundRobinShort(assignments, allShuffled, hs, i) ==
  IF i >= Len(allShuffled) THEN assignments
  ELSE roundRobinShort(
         Put(assignments, getParticipantKey(allShuffled[i + 1], hs),
             TEAM_NAMES[(i % (RoundRobinModulus - 1)) + 1]),
         allShuffled, hs, i + 1)

\* allShuffled.forEach((person, i) => ...), from 0-based index i on
RECURSIVE roundRobin(_, _, _, _)
roundRobin(assignments, allShuffled, hs, i) ==
  IF i >= Len(allShuffled) THEN assignments
  ELSE roundRobin(
         Put(assignments, getParticipantKey(allShuffled[i + 1], hs),
             TEAM_NAMES[(i % RoundRobinModulus) + 1]),
         allShuffled, hs, i + 1)

\* teamCounts with acc[name] = 0 for every name
teamCountsOfCero(assignments) == [t \in TeamSet |-> 0]

teamCountsOf(assignments) ==
  [t \in TeamSet |-> Cardinality({k \in DOMAIN assignments : assignments[k] = t})]

\* TEAM_NAMES.reduce((a, b) => (teamCounts[a] <= teamCounts[b] ? a : b))
RECURSIVE reduceSmallest(_, _, _)
reduceSmallest(teamCounts, a, i) ==
  IF i > Len(TEAM_NAMES) THEN a
  ELSE reduceSmallest(teamCounts,
                      IF teamCounts[a] <= teamCounts[TEAM_NAMES[i]] THEN a
                      ELSE TEAM_NAMES[i],
                      i + 1)

\* the reduce with `<` for `<=`: on a tie the later group is kept
RECURSIVE reduceLast(_, _, _)
reduceLast(teamCounts, a, i) ==
  IF i > Len(TEAM_NAMES) THEN a
  ELSE reduceLast(teamCounts,
                  IF teamCounts[a] < teamCounts[TEAM_NAMES[i]] THEN a
                  ELSE TEAM_NAMES[i],
                  i + 1)

smallestTeamUltimo(teamCounts) == reduceLast(teamCounts, TEAM_NAMES[1], 2)

smallestTeam(teamCounts) == reduceSmallest(teamCounts, TEAM_NAMES[1], 2)

\* the top-up without teamCounts[smallestTeam]++
RECURSIVE topUpSinContar(_, _, _, _)
topUpSinContar(assignments, teamCounts, batch, hs) ==
  IF batch = <<>>
    THEN [assignments |-> assignments, teamCounts |-> teamCounts,
          smallestTeam |-> <<>>, afterEach |-> <<>>]
    ELSE LET t == smallestTeam(teamCounts)
             placed == Put(assignments, getParticipantKey(Head(batch), hs), t)
             rest == topUpSinContar(placed, teamCounts, Tail(batch), hs)
         IN  [assignments |-> rest.assignments,
              teamCounts |-> rest.teamCounts,
              smallestTeam |-> <<t>> \o rest.smallestTeam,
              afterEach |-> <<[assignments |-> placed,
                               teamCounts |-> teamCounts]>> \o rest.afterEach]

\* otrosNoAsignados.forEach(...) of the top-up: the map and the running
\* counts at the end, the value of smallestTeam in each iteration, and the
\* map and the counts at the end of each iteration
RECURSIVE topUp(_, _, _, _)
topUp(assignments, teamCounts, batch, hs) ==
  IF batch = <<>>
    THEN [assignments |-> assignments, teamCounts |-> teamCounts,
          smallestTeam |-> <<>>, afterEach |-> <<>>]
    ELSE LET t == smallestTeam(teamCounts)
             placed == Put(assignments, getParticipantKey(Head(batch), hs), t)
             counted == [x \in TeamSet |-> IF x = t THEN teamCounts[x] + 1
                                                     ELSE teamCounts[x]]
             rest == topUp(placed, counted, Tail(batch), hs)
         IN  [assignments |-> rest.assignments,
              teamCounts |-> rest.teamCounts,
              smallestTeam |-> <<t>> \o rest.smallestTeam,
              afterEach |-> <<[assignments |-> placed,
                               teamCounts |-> counted]>> \o rest.afterEach]

\* the scan with teams[team].unshift(p) for teams[team].push(p)
buildTeamsUnshift(ps, hs, assignments) ==
  LET filtrados == participantesFiltrados(ps, hs)
      rev == [i \in 1..Len(filtrados) |-> filtrados[Len(filtrados) + 1 - i]]
  IN  [t \in TeamSet |->
         SelectSeq(rev,
                   LAMBDA p : /\ Truthy(assignments, getParticipantKey(p, hs))
                              /\ assignments[getParticipantKey(p, hs)] = t)]

buildTeams(ps, hs, assignments) ==
  LET filtrados == participantesFiltrados(ps, hs)
  IN  [t \in TeamSet |->
         SelectSeq(filtrados,
                   LAMBDA p : /\ Truthy(assignments, getParticipantKey(p, hs))
                              /\ assignments[getParticipantKey(p, hs)] = t)]

\* the assignment map assignTeams ends with; allShuffled is the outcome of the
\* shuffles and is read on the initial-split path only
finalAssignments(ps, hs, existingAssignments, allShuffled) ==
  LET assignments == conCoordinadores(ps, hs, existingAssignments)
  IN  IF DOMAIN existingAssignments = {}
        THEN roundRobin(assignments, allShuffled, hs, 0)
        ELSE topUp(assignments, teamCountsOf(assignments),
                   otrosNoAsignados(ps, hs, existingAssignments), hs).assignments

assignTeams(ps, hs, existingAssignments, allShuffled) ==
  LET assignments == finalAssignments(ps, hs, existingAssignments, allShuffled)
  IN  [teams |-> buildTeams(ps, hs, assignments), assignments |-> assignments]

\* the locals of one call that the properties read: the map after the
\* coordinator loop, the batch handed to the balancing pass and, on the top-up
\* path, teamCounts after the last record, smallestTeam of each iteration and
\* the map and teamCounts at the end of each iteration
callLocals(ps, hs, existingAssignments) ==
  LET conCoord == conCoordinadores(ps, hs, existingAssignments)
      batch == otrosNoAsignados(ps, hs, existingAssignments)
      filled == topUp(conCoord, teamCountsOf(conCoord), batch, hs)
  IN  [conCoordinadores |-> conCoord,
       otrosNoAsignados |-> batch,
       teamCounts |->
         IF DOMAIN existingAssignments = {} THEN EmptyMap ELSE filled.teamCounts,
       smallestTeam |->
         IF DOMAIN existingAssignments = {} THEN <<>> ELSE filled.smallestTeam,
       afterEach |->
         IF DOMAIN existingAssignments = {} THEN <<>> ELSE filled.afterEach]

\* what Math.random leaves open in one call
shuffleChoices(ps, hs, existingAssignments) ==
  IF DOMAIN existingAssignments = {}
    THEN allShuffledChoices(otrosNoAsignados(ps, hs, existingAssignments))
    ELSE {<<>>}

(***************************************************************************)
(* Inputs of the assignTeams harness                                       *)
(***************************************************************************)
Rec(nombre, gen, pago, celular) ==
  [c \in {ColNombre, ColGenero, ColPago, ColCelular} |->
     CASE c = ColNombre -> nombre
       [] c = ColGenero -> gen
       [] c = ColPago -> pago
       [] OTHER -> celular]

\* rows a sheet can hold: two spellings of one name (the second one staff),
\* a row without a name, two fixed coordinators (the second one staff)
RecordUniverse ==
  { Rec(<<"a", "b">>, <<"m">>, <<>>, <<"1">>),
    Rec(<<"A", "b", " ">>, <<"F">>, <<"S", "t", "a", "f", "f">>, <<"2">>),
    Rec(<<>>, <<"m">>, <<>>, <<"7">>),
    Rec(<<"F", " ", "h">>, <<"m">>, <<>>, <<>>),
    Rec(<<"x", "d", " ", "a">>, <<"f">>, <<"s", "t", "a", "f", "f">>, <<>>) }

\* the column sets a sheet can have: with and without a payment column
HeaderLayouts ==
  { <<ColNombre, ColGenero, ColPago, ColCelular>>,
    <<ColNombre, ColGenero, ColCelular>> }

\* Papa.parse with header: true gives each row the sheet's columns only
Project(rec, hs) == [c \in {hs[i] : i \in 1..Len(hs)} |-> rec[c]]

\* sheets of up to MaxRoster different rows, in any order
Rosters ==
  UNION {{ps \in [1..n -> RecordUniverse] :
            \A i, j \in 1..n : ps[i] = ps[j] => i = j} : n \in 1..MaxRoster}

\* keys and values a remote document can hold: keys of rows (in a roster or
\* not), groups and a name that is no group
ExistingKeys == { <<"a", "b">>, <<"f", " ", "h">>, <<"7">> }
ExistingValues == {"Rojo", "Verde", "Morado"}
ExistingUniverse == UNION {[S -> ExistingValues] : S \in SUBSET ExistingKeys}

ComponentIdle ==
  /\ GITHUB_TOKEN = FALSE
  /\ sheet = 0
  /\ gist = <<>>
  /\ lsAttendance = [content |-> "absent", attendance |-> <<>>]
  /\ teams = <<>>
  /\ loading = TRUE
  /\ error = <<>>
  /\ attendance = EmptyMap
  /\ headers = <<>>
  /\ participants = <<>>
  /\ pc = "idle"
  /\ run = <<>>
  /\ lastRun = <<>>
  /\ inflight = {}
  /\ remoteReads = FALSE
  /\ remoteWrites = FALSE
  /\ ops = 0
  /\ alerts = {}

InitAssign ==
  /\ \E hs \in HeaderLayouts, ps \in Rosters, ex \in ExistingUniverse :
       callArgs = [participants |-> [i \in 1..Len(ps) |-> Project(ps[i], hs)],
                   headers |-> hs,
                   existingAssignments |-> ex]
  /\ callResult = <<>>
  /\ ComponentIdle

\* one call assignTeams(participants, headers, existingAssignments)
CallAssignTeams ==
  /\ callResult = <<>>
  /\ \E allShuffled \in shuffleChoices(callArgs.participants, callArgs.headers,
                                       callArgs.existingAssignments) :
       callResult' = << assignTeams(callArgs.participants, callArgs.headers,
                                    callArgs.existingAssignments, allShuffled),
                        callLocals(callArgs.participants, callArgs.headers,
                                   callArgs.existingAssignments),
                        allShuffled >>
  /\ UNCHANGED <<callArgs, componentVars>>

NextAssign == CallAssignTeams

SpecAssign == InitAssign /\ [][NextAssign]_vars

(***************************************************************************)
(* Inputs of the balance harness: larger batches of ordinary rows          *)
(***************************************************************************)
\* the sheet the rosters are cut from, in sheet order: two spellings of one
\* name, four more names, a fixed coordinator
BalanceSheet ==
  << Rec(<<"a", "b">>, <<"m">>, <<>>, <<"1">>),
     Rec(<<"A", "b", " ">>, <<"m">>, <<>>, <<"2">>),
     Rec(<<"b">>, <<"m">>, <<>>, <<"3">>),
     Rec(<<"c">>, <<"F">>, <<>>, <<"4">>),
     Rec(<<"d">>, <<"f">>, <<>>, <<"5">>),
     Rec(<<"e">>, <<>>, <<>>, <<"6">>),
     Rec(<<"F", " ", "h">>, <<>>, <<>>, <<"7">>) >>

\* the rows of BalanceSheet at the indices in S, in sheet order
RECURSIVE RowsAt(_, _)
RowsAt(S, i) ==
  IF i > Len(BalanceSheet) THEN <<>>
  ELSE (IF i \in S THEN <<BalanceSheet[i]>> ELSE <<>>) \o RowsAt(S, i + 1)

BalanceRosters ==
  {RowsAt(S, 1) : S \in {T \in SUBSET (1..Len(BalanceSheet)) :
                           Cardinality(T) \in 1..MaxBatch}}

\* assignment maps of earlier runs: keys of rows no longer in the sheet
BalanceKeys == { <<"z", "1">>, <<"z", "2">>, <<"z", "3">> }
BalanceExisting == UNION {[S -> TeamSet] : S \in SUBSET BalanceKeys}

InitBalance ==
  /\ \E ps \in BalanceRosters, ex \in BalanceExisting :
       callArgs = [participants |-> ps,
                   headers |-> <<ColNombre, ColGenero, ColPago, ColCelular>>,
                   existingAssignments |-> ex]
  /\ callResult = <<>>
  /\ ComponentIdle

SpecBalance == InitBalance /\ [][NextAssign]_vars

(***************************************************************************)
(* assignTeams with another literal for TEAM_NAMES (SpecGroups)            *)
(***************************************************************************)
\* the group lists tried in place of the four names of line 9
GroupLists == { <<>>, <<"Rojo">> }

\* what an index past the end of TEAM_NAMES reads: undefined, falsy
undefined == ""

\* allShuffled.forEach: teamIndex = i % 4, teamName = names[teamIndex]
RECURSIVE roundRobinOver(_, _, _, _, _)
roundRobinOver(names, assignments, allShuffled, hs, i) ==
  IF i >= Len(allShuffled) THEN assignments
  ELSE LET teamIndex == i % RoundRobinModulus
           teamName == IF teamIndex < Len(names) THEN names[teamIndex + 1]
                       ELSE undefined
       IN  roundRobinOver(names,
                          Put(assignments, getParticipantKey(allShuffled[i + 1], hs),
                              teamName),
                          allShuffled, hs, i + 1)

\* names.reduce((acc, name) => ..., {}) of the top-up
teamCountsOver(names, assignments) ==
  [t \in {names[i] : i \in 1..Len(names)} |->
     Cardinality({k \in DOMAIN assignments : assignments[k] = t})]

\* names.reduce((a, b) => (teamCounts[a] <= teamCounts[b] ? a : b)) from the
\* accumulator a and the 1-based position i on; names is not empty
RECURSIVE reduceSmallestOver(_, _, _, _)
reduceSmallestOver(names, teamCounts, a, i) ==
  IF i > Len(names) THEN a
  ELSE reduceSmallestOver(names, teamCounts,
                          IF teamCounts[a] <= teamCounts[names[i]] THEN a
                          ELSE names[i],
                          i + 1)

\* the forEach of the top-up: reduce without an initial value throws a
\* TypeError on an empty array, in the first iteration
RECURSIVE topUpOver(_, _, _, _, _)
topUpOver(names, assignments, teamCounts, batch, hs) ==
  IF batch = <<>> THEN [threw |-> FALSE, assignments |-> assignments]
  ELSE IF names = <<>> THEN [threw |-> TRUE, assignments |-> assignments]
  ELSE LET t == reduceSmallestOver(names, teamCounts, names[1], 2)
       IN  topUpOver(names,
                     Put(assignments, getParticipantKey(Head(batch), hs), t),
                     [teamCounts EXCEPT ![t] = @ + 1], Tail(batch), hs)

\* teams: one roster per name, filled by the scan of participantesFiltrados
buildTeamsOver(names, ps, hs, assignments) ==
  [t \in {names[i] : i \in 1..Len(names)} |->
     SelectSeq(participantesFiltrados(ps, hs),
               LAMBDA p : /\ Truthy(assignments, getParticipantKey(p, hs))
                          /\ assignments[getParticipantKey(p, hs)] = t)]

\* assignTeams with TEAM_NAMES = names: whether it threw, and what it returns
assignTeamsOver(names, ps, hs, existingAssignments, allShuffled) ==
  LET assignments == conCoordinadores(ps, hs, existingAssignments)
      filled ==
        IF DOMAIN existingAssignments = {}
          THEN [threw |-> FALSE,
                assignments |-> roundRobinOver(names, assignments, allShuffled, hs, 0)]
          ELSE topUpOver(names, assignments, teamCountsOver(names, assignments),
                         otrosNoAsignados(ps, hs, existingAssignments), hs)
  IN  IF filled.threw
        THEN [threw |-> TRUE, teams |-> <<>>, assignments |-> <<>>]
        ELSE [threw |-> FALSE,
              teams |-> buildTeamsOver(names, ps, hs, filled.assignments),
              assignments |-> filled.assignments]

InitGroups ==
  /\ \E names \in GroupLists, ps \in Rosters, ex \in ExistingUniverse :
       callArgs = [participants |-> ps,
                   headers |-> <<ColNombre, ColGenero, ColPago, ColCelular>>,
                   existingAssignments |-> ex,
                   teamNames |-> names]
  /\ callResult = <<>>
  /\ ComponentIdle

\* one call assignTeams(participants, headers, existingAssignments)
CallAssignTeamsOver ==
  /\ callResult = <<>>
  /\ \E allShuffled \in shuffleChoices(callArgs.participants, callArgs.headers,
                                       callArgs.existingAssignments) :
       callResult' = << assignTeamsOver(callArgs.teamNames, callArgs.participants,
                                        callArgs.headers,
                                        callArgs.existingAssignments, allShuffled),
                        callLocals(callArgs.participants, callArgs.headers,
                                   callArgs.existingAssignments),
                        allShuffled >>
  /\ UNCHANGED <<callArgs, componentVars>>

NextGroups == CallAssignTeamsOver

SpecGroups == InitGroups /\ [][NextGroups]_vars

(***************************************************************************)
(* getParticipantKey on two rows and two column orders                     *)
(***************************************************************************)
KeyRecords ==
  RecordUniverse \cup { Rec(<<" ", "a", "B">>, <<>>, <<"s", "t", "a", "f", "f">>, <<"7">>) }

\* every order of the four columns
KeyLayouts ==
  LET cols == <<ColNombre, ColGenero, ColPago, ColCelular>>
  IN  {[i \in 1..4 |-> cols[f[i]]] :
         f \in {g \in [1..4 -> 1..4] : \A i, j \in 1..4 : g[i] = g[j] => i = j}}

InitKey ==
  /\ \E p \in KeyRecords, q \in KeyRecords, h1 \in KeyLayouts, h2 \in KeyLayouts :
       callArgs = [p |-> p, q |-> q, h1 |-> h1, h2 |-> h2]
  /\ callResult = <<>>
  /\ ComponentIdle

\* getParticipantKey(p, h1), getParticipantKey(q, h2), and the first call again
CallGetParticipantKey ==
  /\ callResult = <<>>
  /\ callResult' = << getParticipantKey(callArgs.p, callArgs.h1),
                      getParticipantKey(callArgs.q, callArgs.h2),
                      getParticipantKey(callArgs.p, callArgs.h1) >>
  /\ UNCHANGED <<callArgs, componentVars>>

NextKey == CallGetParticipantKey

SpecKey == InitKey /\ [][NextKey]_vars

(***************************************************************************)
(* The component: environment                                              *)
(***************************************************************************)
SyncHeaders == <<ColNombre, ColGenero, ColPago, ColCelular>>

\* the rows the sheet comes to hold, in sheet order (rows are appended)
SyncRows ==
  << Rec(<<"a", "b">>, <<"m">>, <<>>, <<"1">>),
     Rec(<<>>, <<"m">>, <<>>, <<"7">>),
     Rec(<<"F", " ", "h">>, <<"m">>, <<>>, <<>>),
     Rec(<<"A", "b", " ">>, <<"F">>, <<>>, <<"2">>) >>

SheetRows(n) == SubSeq(SyncRows, 1, n)

\* the remote file: absent, not JSON, or the document the code writes
GistDoc(assignments, att) ==
  [content |-> "json", assignments |-> assignments, attendance |-> att]
GistMissing == [content |-> "missing", assignments |-> EmptyMap, attendance |-> EmptyMap]
GistMalformed ==
  [content |-> "malformed", assignments |-> EmptyMap, attendance |-> EmptyMap]

KeyAB == <<"a", "b">>
KeyFH == <<"f", " ", "h">>

\* what the remote file can hold when the page is first opened
InitialGists ==
  { GistMissing, GistMalformed,
    GistDoc(EmptyMap, EmptyMap),
    GistDoc([k \in {KeyAB, KeyFH} |-> "Verde"], [k \in {KeyAB} |-> TRUE]),
    GistDoc([k \in {KeyAB} |-> "Morado"], EmptyMap) }

\* localStorage[ATTENDANCE_KEY]: no item, the JSON the program writes, or text
\* that JSON.parse rejects
LocalAbsent == [content |-> "absent", attendance |-> EmptyMap]
LocalJson(att) == [content |-> "json", attendance |-> att]
LocalMalformed == [content |-> "malformed", attendance |-> EmptyMap]

\* what localStorage[ATTENDANCE_KEY] can hold when the page is first opened
\* and only this program has written it
InitialLocal == { LocalAbsent, LocalJson([k \in {<<"7">>} |-> TRUE]) }

\* the same, when something else has written the item too
InitialLocalAny == InitialLocal \cup {LocalMalformed}

ImportOutcomes == {"ok", "unreachable"}
FetchOutcomes == {"ok", "network", "notok"}

(***************************************************************************)
(* The component: helpers of the handlers                                  *)
(***************************************************************************)
\* loadFromGoogleSheets without the test of response.ok
loadFromGoogleSheetsSinOk(outcome, rows) ==
  IF rows = <<>>
    THEN [threw |-> TRUE, participants |-> <<>>, headers |-> <<>>]
    ELSE [threw |-> FALSE, participants |-> rows, headers |-> SyncHeaders]

\* loadFromGoogleSheets: throws when the sheet cannot be fetched or has no row
loadFromGoogleSheets(outcome, rows) ==
  IF outcome # "ok" \/ rows = <<>>
    THEN [threw |-> TRUE, participants |-> <<>>, headers |-> <<>>]
    ELSE [threw |-> FALSE, participants |-> rows, headers |-> SyncHeaders]

\* how the GET of the gist ended, as the run records it
readOutcomeOf(outcome, doc) ==
  IF outcome # "ok" THEN outcome
  ELSE IF doc.content = "json" THEN "ok" ELSE doc.content

\* loadAssignmentsFromGist without its try/catch: a failure reaches the caller
loadAssignmentsFromGistSinCatch(outcome, doc) ==
  IF outcome = "ok" /\ doc.content = "json"
    THEN [threw |-> FALSE, assignments |-> doc.assignments,
          attendance |-> doc.attendance]
    ELSE [threw |-> TRUE, assignments |-> EmptyMap, attendance |-> EmptyMap]

\* loadAssignmentsFromGist that drops the assignments of the remote document
loadAssignmentsFromGistSinAsignaciones(outcome, doc) ==
  IF outcome = "ok" /\ doc.content = "json"
    THEN [threw |-> FALSE, assignments |-> EmptyMap, attendance |-> doc.attendance]
    ELSE [threw |-> FALSE, assignments |-> EmptyMap, attendance |-> EmptyMap]

\* loadAssignmentsFromGist with a token: every failure is caught in the function
loadAssignmentsFromGist(outcome, doc) ==
  IF outcome = "ok" /\ doc.content = "json"
    THEN [threw |-> FALSE, assignments |-> doc.assignments,
          attendance |-> doc.attendance]
    ELSE [threw |-> FALSE, assignments |-> EmptyMap, attendance |-> EmptyMap]

\* JSON.parse(localStorage.getItem(ATTENDANCE_KEY) || '{}')
localAttendanceOrEmpty(item) ==
  IF item.content = "malformed" THEN [threw |-> TRUE, attendance |-> EmptyMap]
  ELSE [threw |-> FALSE, attendance |-> item.attendance]

\* if (savedAttendance) setAttendance(JSON.parse(savedAttendance)): what the
\* attendance in memory becomes when it now holds `shown`
savedAttendanceOr(item, shown) ==
  IF item.content = "absent" THEN [threw |-> FALSE, attendance |-> shown]
  ELSE IF item.content = "malformed" THEN [threw |-> TRUE, attendance |-> shown]
  ELSE [threw |-> FALSE, attendance |-> item.attendance]

\* JSON.parse(localStorage.getItem('team_assignments_v13') || '{}'): no code of
\* the component writes that item
storedAssignmentsV13 == EmptyMap

\* toggleAttendance without the guard around its PATCH
toggleSendsPatchSiempre(token) == TRUE

\* toggleAttendance building the new map without the spread of prev
updatedSinPrev(prev, key) ==
  [x \in {key} |-> ~(key \in DOMAIN prev /\ prev[key])]

\* toggleAttendance: newStatus = !prev[key]; updated = { ...prev, [key]: newStatus }
updated(prev, key) == Put(prev, key, ~(key \in DOMAIN prev /\ prev[key]))

\* the guard `if (GITHUB_TOKEN)` around the PATCH of toggleAttendance
toggleSendsPatch(token) == token

NoRun ==
  [kind |-> "none", importOutcome |-> "none", importOk |-> FALSE, data |-> <<>>,
   readOutcome |-> "none",
   existingAssignments |-> EmptyMap, existingAttendance |-> EmptyMap,
   localAttendance |-> EmptyMap, localPresent |-> FALSE,
   cacheUnreadable |-> FALSE,
   assignments |-> EmptyMap, savedAttendance |-> EmptyMap,
   shownAttendance |-> EmptyMap, wroteRemote |-> FALSE]

(***************************************************************************)
(* The component: handlers                                                 *)
(***************************************************************************)
\* useState initial values; the effect has called loadData, which waits for
\* loadFromGoogleSheets
InitWith(gists, locals) ==
  /\ callArgs = <<>>
  /\ callResult = <<>>
  /\ GITHUB_TOKEN \in BOOLEAN
  /\ sheet \in 0..MaxSheet
  /\ gist \in gists
  /\ lsAttendance \in locals
  /\ teams = <<>>
  /\ loading = TRUE
  /\ error = <<>>
  /\ attendance = EmptyMap
  /\ headers = <<>>
  /\ participants = <<>>
  /\ pc = "import"
  /\ run = [NoRun EXCEPT !.kind = "loadData"]
  /\ lastRun = NoRun
  /\ inflight = {}
  /\ remoteReads = FALSE
  /\ remoteWrites = FALSE
  /\ ops = 0
  /\ alerts = {}

\* reloadFromSheet ends with an alert: the count of rows, or the error caught
AlertsAfter(kind, failed) ==
  IF kind # "reload" THEN alerts
  ELSE alerts \cup {IF failed THEN "reloadError" ELSE "reloaded"}

Init == InitWith(InitialGists, InitialLocal)

\* the run ending with setLoading(false) as the last statement of the try
\* block: a run whose import threw leaves loading as it is
FinishSinFinally(r) ==
  /\ loading' = IF r.importOk THEN FALSE ELSE loading
  /\ pc' = "idle"
  /\ run' = NoRun
  /\ lastRun' = r

\* the run ends: finally { setLoading(false) }
Finish(r) ==
  /\ loading' = FALSE
  /\ pc' = "idle"
  /\ run' = NoRun
  /\ lastRun' = r

\* loadData / reloadFromSheet up to the answer of loadFromGoogleSheets
SyncImport ==
  /\ pc = "import"
  /\ \E o \in ImportOutcomes :
       LET r == loadFromGoogleSheets(o, SheetRows(sheet))
       IN  IF r.threw
             THEN /\ error' = IF run.kind = "loadData" THEN <<"import">> ELSE error
                  /\ Finish([run EXCEPT !.importOutcome = o])
                  /\ alerts' = AlertsAfter(run.kind, TRUE)
                  /\ UNCHANGED <<headers, participants>>
             ELSE /\ headers' = r.headers
                  /\ participants' = r.participants
                  /\ pc' = "read"
                  /\ run' = [run EXCEPT !.importOutcome = o, !.importOk = TRUE,
                                        !.data = r.participants]
                  /\ UNCHANGED <<error, loading, lastRun, alerts>>
  /\ UNCHANGED <<harnessVars, GITHUB_TOKEN, sheet, gist, lsAttendance, teams,
                 attendance, inflight, remoteReads, remoteWrites, ops>>

\* the rest of the run once loadAssignmentsFromGist has returned `got`
AfterRead(got, outcome) ==
  \E allShuffled \in shuffleChoices(run.data, headers, got.assignments) :
    LET res == assignTeams(run.data, headers, got.assignments, allShuffled)
        parsed == localAttendanceOrEmpty(lsAttendance)
        localAttendance == parsed.attendance
        combinedAttendance == Spread(got.attendance, localAttendance)
        after == savedAttendanceOr(lsAttendance, attendance)
        saved == IF run.kind = "loadData" THEN combinedAttendance ELSE got.attendance
        shown == IF run.kind = "loadData" THEN combinedAttendance
                 ELSE after.attendance
        r == [run EXCEPT !.readOutcome = outcome,
                         !.existingAssignments = got.assignments,
                         !.existingAttendance = got.attendance,
                         !.localAttendance = localAttendance,
                         !.localPresent = (lsAttendance.content # "absent"),
                         !.cacheUnreadable = parsed.threw,
                         !.assignments = res.assignments,
                         !.savedAttendance = saved,
                         !.shownAttendance = shown]
    IN  /\ teams' = <<res.teams>>
        /\ IF run.kind = "loadData" /\ parsed.threw
             THEN \* JSON.parse throws in loadData: catch, setError, no save
                  /\ error' = <<"cache">>
                  /\ Finish([r EXCEPT !.shownAttendance = attendance,
                                      !.savedAttendance = EmptyMap])
                  /\ UNCHANGED <<attendance, remoteWrites, alerts>>
             ELSE /\ UNCHANGED error
                  /\ IF GITHUB_TOKEN
                       THEN \* saveAssignmentsToGist sends the PATCH and waits
                            /\ remoteWrites' = TRUE
                            /\ pc' = "write"
                            /\ run' = r
                            /\ attendance' = IF run.kind = "loadData"
                                               THEN combinedAttendance
                                             ELSE attendance
                            /\ UNCHANGED <<loading, lastRun, alerts>>
                       ELSE \* saveAssignmentsToGist returns at once
                            /\ attendance' = shown
                            /\ Finish(r)
                            /\ alerts' = AlertsAfter(run.kind, parsed.threw)
                            /\ UNCHANGED remoteWrites

\* loadData / reloadFromSheet from the answer of loadAssignmentsFromGist up to
\* the PATCH of saveAssignmentsToGist
SyncReadOf(outcomes) ==
  /\ pc = "read"
  /\ IF GITHUB_TOKEN
       THEN \E o \in outcomes :
              LET got == loadAssignmentsFromGist(o, gist)
              IN  /\ remoteReads' = TRUE
                  /\ IF got.threw
                       THEN /\ error' = IF run.kind = "loadData" THEN <<"gist">>
                                        ELSE error
                            /\ Finish([run EXCEPT !.readOutcome = readOutcomeOf(o, gist)])
                            /\ alerts' = AlertsAfter(run.kind, TRUE)
                            /\ UNCHANGED <<teams, attendance, remoteWrites>>
                       ELSE AfterRead(got, readOutcomeOf(o, gist))
       ELSE /\ AfterRead([threw |-> FALSE, assignments |-> EmptyMap,
                          attendance |-> EmptyMap], "none")
            /\ UNCHANGED remoteReads
  /\ UNCHANGED <<harnessVars, GITHUB_TOKEN, sheet, gist, lsAttendance, headers,
                 participants, inflight, ops>>

SyncRead == SyncReadOf(FetchOutcomes)

\* the PATCH of saveAssignmentsToGist is answered; the run ends
SyncWriteOf(outcomes) ==
  /\ pc = "write"
  /\ \E o \in outcomes :
       /\ gist' = IF o = "ok" THEN GistDoc(run.assignments, run.savedAttendance)
                  ELSE gist
       /\ attendance' = run.shownAttendance
       /\ Finish([run EXCEPT !.wroteRemote = (o = "ok")])
  /\ alerts' = AlertsAfter(run.kind, run.cacheUnreadable)
  /\ UNCHANGED <<harnessVars, GITHUB_TOKEN, sheet, lsAttendance, teams, error,
                 headers, participants, inflight, remoteReads, remoteWrites, ops>>

SyncWrite == SyncWriteOf(FetchOutcomes)

\* reloadFromSheet is called from the page that shows the teams
StartReloadWithin(budget) ==
  /\ pc = "idle"
  /\ ~loading
  /\ error = <<>>
  /\ ops < budget
  /\ ops' = ops + 1
  /\ loading' = TRUE
  /\ pc' = "import"
  /\ run' = [NoRun EXCEPT !.kind = "reload"]
  /\ UNCHANGED <<harnessVars, GITHUB_TOKEN, sheet, gist, lsAttendance, teams, error,
                 attendance, headers, participants, lastRun, inflight,
                 remoteReads, remoteWrites, alerts>>

\* toggleAttendance(participant), from a team list or from a search result,
\* with at most `budget` operations and `window` requests in flight
ToggleAttendanceWithin(budget, window) ==
  /\ pc = "idle"
  /\ ~loading
  /\ error = <<>>
  /\ teams # <<>>
  /\ ops < budget
  /\ ops' = ops + 1
  /\ \E i \in 1..Len(participants) :
       LET key == getParticipantKey(participants[i], headers)
           doc == GistDoc(storedAssignmentsV13, updated(attendance, key))
       IN  /\ attendance' = updated(attendance, key)
           /\ lsAttendance' = LocalJson(updated(attendance, key))
           /\ IF toggleSendsPatch(GITHUB_TOKEN)
                THEN /\ Cardinality(inflight \cup {doc}) <= window
                     /\ inflight' = inflight \cup {doc}
                     /\ remoteWrites' = TRUE
                ELSE UNCHANGED <<inflight, remoteWrites>>
  /\ UNCHANGED <<harnessVars, GITHUB_TOKEN, sheet, gist, teams, loading, error,
                 headers, participants, pc, run, lastRun, remoteReads, alerts>>

ToggleAttendance == ToggleAttendanceWithin(MaxOps, MaxInflight)

\* a PATCH of toggleAttendance is answered, in one of the ways of `outcomes`;
\* the requests in flight are answered in any order
PatchAnsweredOf(outcomes) ==
  /\ \E doc \in inflight, o \in outcomes :
       /\ inflight' = inflight \ {doc}
       /\ gist' = IF o = "ok" THEN doc ELSE gist
  /\ UNCHANGED <<harnessVars, GITHUB_TOKEN, sheet, lsAttendance, teams, loading,
                 error, attendance, headers, participants, pc, run, lastRun,
                 remoteReads, remoteWrites, ops, alerts>>

\* the page is opened again: the component mounts with its initial state
RemountWithin(budget) ==
  /\ pc = "idle"
  /\ ops < budget
  /\ ops' = ops + 1
  /\ teams' = <<>>
  /\ loading' = TRUE
  /\ error' = <<>>
  /\ attendance' = EmptyMap
  /\ headers' = <<>>
  /\ participants' = <<>>
  /\ pc' = "import"
  /\ run' = [NoRun EXCEPT !.kind = "loadData"]
  /\ UNCHANGED <<harnessVars, GITHUB_TOKEN, sheet, gist, lsAttendance, lastRun,
                 inflight, remoteReads, remoteWrites, alerts>>

\* a row is added to the Google Sheet
SheetGainsWithin(budget) ==
  /\ sheet < MaxSheet
  /\ sheet < Len(SyncRows)
  /\ ops < budget
  /\ ops' = ops + 1
  /\ sheet' = sheet + 1
  /\ UNCHANGED <<harnessVars, GITHUB_TOKEN, gist, lsAttendance, teams, loading,
                 error, attendance, headers, participants, pc, run, lastRun,
                 inflight, remoteReads, remoteWrites, alerts>>

PatchAnswered == PatchAnsweredOf(FetchOutcomes)
StartReload == StartReloadWithin(MaxOps)
Remount == RemountWithin(MaxOps)
SheetGains == SheetGainsWithin(MaxOps)

Next ==
  \/ SyncImport
  \/ SyncRead
  \/ SyncWrite
  \/ StartReload
  \/ ToggleAttendance
  \/ PatchAnswered
  \/ Remount
  \/ SheetGains

Spec == Init /\ [][Next]_vars

\* the handlers that set loading, error and teams, over a sheet that does not
\* change, when every request a run waits for is answered or fails: the awaits
\* of loadFromGoogleSheets and of saveAssignmentsToGist resume, and so does the
\* await of loadAssignmentsFromGist, which SyncRead alone moves on from (weak
\* fairness of SyncRead, stated on pc)
NextAnswered ==
  \/ SyncImport
  \/ SyncRead
  \/ SyncWrite
  \/ StartReload
  \/ Remount

SpecAnswered ==
  /\ Init
  /\ [][NextAnswered]_vars
  /\ WF_vars(SyncImport)
  /\ []<>(pc # "read")
  /\ WF_vars(SyncWrite)

(***************************************************************************)
(* One client with a credential whose remote reads and writes all succeed, *)
(* and who only loads and reloads                                          *)
(***************************************************************************)
InitLoads == Init /\ GITHUB_TOKEN

SyncReadOk == SyncReadOf({"ok"})
SyncWriteOk == SyncWriteOf({"ok"})
StartReloadAgain == StartReloadWithin(MaxLoadOps)
RemountAgain == RemountWithin(MaxLoadOps)
SheetGainsAgain == SheetGainsWithin(MaxLoadOps)

NextLoads ==
  \/ SyncImport
  \/ SyncReadOk
  \/ SyncWriteOk
  \/ StartReloadAgain
  \/ RemountAgain
  \/ SheetGainsAgain

SpecLoads == InitLoads /\ [][NextLoads]_vars

(***************************************************************************)
(* One client with a credential whose remote reads and writes all succeed, *)
(* who loads once and then toggles attendance                              *)
(***************************************************************************)
ToggleAttendanceAgain == ToggleAttendanceWithin(MaxToggles, MaxWindow)
PatchStored == PatchAnsweredOf({"ok"})

NextToggles ==
  \/ SyncImport
  \/ SyncReadOk
  \/ SyncWriteOk
  \/ ToggleAttendanceAgain
  \/ PatchStored

SpecToggles == InitLoads /\ [][NextToggles]_vars

(***************************************************************************)
(* The component when its localStorage item may hold text it did not write *)
(***************************************************************************)
InitAnyCache == InitWith(InitialGists, InitialLocalAny)

SpecAnyCache == InitAnyCache /\ [][Next]_vars

(***************************************************************************)
(* The earlier component, src/src/components/TeamDivider.jsx: no fixed      *)
(* coordinators, no staff filter, a remote file that holds the assignment  *)
(* map alone, attendance in localStorage only.  getParticipantKey and      *)
(* loadFromGoogleSheets are the same code in both files.                   *)
(***************************************************************************)
unassignedJsx(ps, hs, existingAssignments) ==
  SelectSeq(ps, LAMBDA p : ~Truthy(existingAssignments, getParticipantKey(p, hs)))

shuffleChoicesJsx(ps, hs, existingAssignments) ==
  IF DOMAIN existingAssignments = {}
    THEN allShuffledChoices(unassignedJsx(ps, hs, existingAssignments))
    ELSE {<<>>}

buildTeamsJsx(ps, hs, assignments) ==
  [t \in TeamSet |->
     SelectSeq(ps, LAMBDA p : /\ Truthy(assignments, getParticipantKey(p, hs))
                              /\ assignments[getParticipantKey(p, hs)] = t)]

assignTeamsJsx(ps, hs, existingAssignments, allShuffled) ==
  LET assignments ==
        IF DOMAIN existingAssignments = {}
          THEN roundRobin(existingAssignments, allShuffled, hs, 0)
          ELSE topUp(existingAssignments, teamCountsOf(existingAssignments),
                     unassignedJsx(ps, hs, existingAssignments), hs).assignments
  IN  [teams |-> buildTeamsJsx(ps, hs, assignments), assignments |-> assignments]

\* the remote file of this component: JSON.stringify(assignments), an object
\* whose own entries are the assignment map
FlatDoc(assignments) == [content |-> "json", entries |-> assignments]

InitialGistsJsx ==
  { GistMissing, GistMalformed, FlatDoc(EmptyMap),
    FlatDoc([k \in {KeyAB, KeyFH} |-> "Verde"]) }

\* loadAssignmentsFromGist: fileContent ? JSON.parse(fileContent) : {}, with
\* every failure caught
loadAssignmentsFromGistJsx(outcome, doc) ==
  IF outcome = "ok" /\ doc.content = "json" THEN doc.entries ELSE EmptyMap

\* the catch block of saveAssignmentsToGist: alert(...) when the PATCH fails
saveAlertsJsx(outcome) == IF outcome = "ok" THEN {} ELSE {"saveFailed"}

\* the end of a run: the attendance of localStorage is loaded; a text that
\* JSON.parse rejects is an error of loadData and an alert of reloadFromSheet
EndRunJsx(r, shownAlerts) ==
  LET after == savedAttendanceOr(lsAttendance, attendance)
  IN  /\ attendance' = after.attendance
      /\ error' = IF after.threw /\ r.kind = "loadData" THEN <<"cache">> ELSE error
      /\ alerts' = shownAlerts \cup AlertsAfter(r.kind, after.threw)
      /\ Finish([r EXCEPT !.cacheUnreadable = after.threw,
                          !.shownAttendance = after.attendance])

InitJsx == InitWith(InitialGistsJsx, InitialLocal)

\* loadData / reloadFromSheet from the answer of loadAssignmentsFromGist up to
\* the PATCH of saveAssignmentsToGist
SyncReadJsx ==
  /\ pc = "read"
  /\ \E o \in (IF GITHUB_TOKEN THEN FetchOutcomes ELSE {"none"}) :
       LET existingAssignments ==
             IF GITHUB_TOKEN THEN loadAssignmentsFromGistJsx(o, gist) ELSE EmptyMap
       IN  \E allShuffled \in shuffleChoicesJsx(run.data, headers, existingAssignments) :
             LET res == assignTeamsJsx(run.data, headers, existingAssignments,
                                       allShuffled)
                 r == [run EXCEPT
                         !.readOutcome = IF GITHUB_TOKEN THEN readOutcomeOf(o, gist)
                                         ELSE "none",
                         !.existingAssignments = existingAssignments,
                         !.localPresent = (lsAttendance.content # "absent"),
                         !.assignments = res.assignments]
             IN  /\ teams' = <<res.teams>>
                 /\ IF GITHUB_TOKEN
                      THEN /\ remoteReads' = TRUE
                           /\ remoteWrites' = TRUE
                           /\ pc' = "write"
                           /\ run' = r
                           /\ UNCHANGED <<loading, lastRun, attendance, alerts, error>>
                      ELSE /\ EndRunJsx(r, {})
                           /\ UNCHANGED <<remoteReads, remoteWrites>>
  /\ UNCHANGED <<harnessVars, GITHUB_TOKEN, sheet, gist, lsAttendance,
                 headers, participants, inflight, ops>>

\* the PATCH of saveAssignmentsToGist is answered; the run ends
SyncWriteJsx ==
  /\ pc = "write"
  /\ \E o \in FetchOutcomes :
       /\ gist' = IF o = "ok" THEN FlatDoc(run.assignments) ELSE gist
       /\ EndRunJsx([run EXCEPT !.wroteRemote = (o = "ok")], saveAlertsJsx(o))
  /\ UNCHANGED <<harnessVars, GITHUB_TOKEN, sheet, lsAttendance, teams,
                 headers, participants, inflight, remoteReads, remoteWrites, ops>>

\* toggleAttendance(participant): memory and localStorage only
ToggleAttendanceJsx ==
  /\ pc = "idle"
  /\ ~loading
  /\ error = <<>>
  /\ teams # <<>>
  /\ ops < MaxOps
  /\ ops' = ops + 1
  /\ \E i \in 1..Len(participants) :
       LET key == getParticipantKey(participants[i], headers)
       IN  /\ attendance' = updated(attendance, key)
           /\ lsAttendance' = LocalJson(updated(attendance, key))
  /\ UNCHANGED <<harnessVars, GITHUB_TOKEN, sheet, gist, teams, loading, error,
                 headers, participants, pc, run, lastRun, inflight, remoteReads,
                 remoteWrites, alerts>>

NextJsx ==
  \/ SyncImport
  \/ SyncReadJsx
  \/ SyncWriteJsx
  \/ StartReload
  \/ ToggleAttendanceJsx
  \/ Remount
  \/ SheetGains

SpecJsx == InitJsx /\ [][NextJsx]_vars

(***************************************************************************)
(* Properties of one assignTeams call (SpecAssign)                         *)
(***************************************************************************)
Called == callResult # <<>>
ArgP == callArgs.participants
ArgH == callArgs.headers
ArgE == callArgs.existingAssignments
ResA == callResult[1].assignments
ResT == callResult[1].teams

KeyOf(i) == getParticipantKey(ArgP[i], ArgH)

\* record i is in some roster
InSomeRoster(i) ==
  \E t \in TeamSet : \E j \in 1..Len(ResT[t]) : ResT[t][j] = ArgP[i]

\* C1, as stated: every record whose name contains a key of the override
\* table has its key mapped to the override's group in the returned map.
C1_AsStated ==
  Called =>
    \A i \in 1..Len(ArgP) :
      esCoordinador(ArgP[i]) =>
        /\ KeyOf(i) \in DOMAIN ResA
        /\ ResA[KeyOf(i)] = equipoFijo(ArgP[i])[2]

\* C1, amended: every record that the staff filter keeps and whose name
\* contains a key of the override table has its key mapped to the group of the
\* first such table entry, whatever existingAssignments held for the key.
C1_OverridePrecedence ==
  Called =>
    \A i \in 1..Len(ArgP) :
      (esCoordinador(ArgP[i]) /\ ~IsStaff(ArgP[i], ArgH)) =>
        /\ KeyOf(i) \in DOMAIN ResA
        /\ ResA[KeyOf(i)] = equipoFijo(ArgP[i])[2]

\* C1's case: a kept coordinator whose key existingAssignments mapped elsewhere
C1_Witness ==
  /\ Called
  /\ \E i \in 1..Len(ArgP) :
       /\ esCoordinador(ArgP[i]) /\ ~IsStaff(ArgP[i], ArgH)
       /\ KeyOf(i) \in DOMAIN ArgE
       /\ ArgE[KeyOf(i)] # equipoFijo(ArgP[i])[2]
       /\ ResA[KeyOf(i)] = equipoFijo(ArgP[i])[2]
       /\ Len(callResult[2].otrosNoAsignados) > 0

\* key k is the key of a record whose name matches a fixed override
KeyOfCoordinator(k) ==
  \E i \in 1..Len(ArgP) : KeyOf(i) = k /\ esCoordinador(ArgP[i])

\* C2: every key of existingAssignments is a key of the returned map, and
\* one whose record matches no fixed override keeps its group.
C2_ExistingKept ==
  Called =>
    \A k \in DOMAIN ArgE :
      /\ k \in DOMAIN ResA
      /\ ~KeyOfCoordinator(k) => ResA[k] = ArgE[k]

\* C2's case: an assigned record of the roster kept its group while another
\* record was placed by the top-up
C2_Witness ==
  /\ Called
  /\ \E i \in 1..Len(ArgP) :
       /\ ~IsStaff(ArgP[i], ArgH) /\ ~esCoordinador(ArgP[i])
       /\ KeyOf(i) \in DOMAIN ArgE
       /\ ResA[KeyOf(i)] = ArgE[KeyOf(i)]
  /\ \E k \in DOMAIN ResA : k \notin DOMAIN ArgE

\* C7, as stated: a staff record is in no roster and its key has no entry in
\* the returned map.
C7_AsStated ==
  Called =>
    \A i \in 1..Len(ArgP) :
      IsStaff(ArgP[i], ArgH) => (~InSomeRoster(i) /\ KeyOf(i) \notin DOMAIN ResA)

\* C7, amended: a staff record is in no roster, and its key has an entry in
\* the returned map only if existingAssignments had that key or a record the
\* filter keeps has the same key.
C7_StaffExcluded ==
  Called =>
    \A i \in 1..Len(ArgP) :
      IsStaff(ArgP[i], ArgH) =>
        /\ ~InSomeRoster(i)
        /\ KeyOf(i) \in DOMAIN ResA =>
             \/ KeyOf(i) \in DOMAIN ArgE
             \/ \E j \in 1..Len(ArgP) : ~IsStaff(ArgP[j], ArgH) /\ KeyOf(j) = KeyOf(i)

\* C7's case: a staff record left without entry beside a record that got one
C7_Witness ==
  /\ Called
  /\ \E i \in 1..Len(ArgP) :
       /\ IsStaff(ArgP[i], ArgH)
       /\ KeyOf(i) \notin DOMAIN ResA
       /\ ~InSomeRoster(i)
  /\ \E j \in 1..Len(ArgP) : InSomeRoster(j)

(***************************************************************************)
(* Balance of one assignTeams call (SpecBalance)                           *)
(***************************************************************************)
\* the records the balancing pass places, in input order
Batch == callResult[2].otrosNoAsignados
BatchKey(j) == getParticipantKey(Batch[j], ArgH)
BatchKeysDistinct ==
  \A i, j \in 1..Len(Batch) : BatchKey(i) = BatchKey(j) => i = j

\* how many records of the batch ended in group t
BatchSize(t) ==
  Cardinality({j \in 1..Len(Batch) :
                 BatchKey(j) \in DOMAIN ResA /\ ResA[BatchKey(j)] = t})

\* the rosters record p is in
RostersOf(p) == {t \in TeamSet : \E j \in 1..Len(ResT[t]) : ResT[t][j] = p}

\* ceil(N/G) - floor(N/G)
RoundRobinSlack(n) == IF n % Len(TEAM_NAMES) = 0 THEN 0 ELSE 1

InitialSplitBalanced ==
  /\ \A j \in 1..Len(Batch) :
       /\ BatchKey(j) \in DOMAIN ResA
       /\ ResA[BatchKey(j)] \in TeamSet
       /\ Cardinality(RostersOf(Batch[j])) = 1
  /\ \A t, u \in TeamSet : BatchSize(t) - BatchSize(u) <= RoundRobinSlack(Len(Batch))

\* C3, as stated: in the initial split every unassigned record is in exactly
\* one group and the group sizes differ by at most ceil(N/G) - floor(N/G).
C3_AsStated == (Called /\ DOMAIN ArgE = {}) => InitialSplitBalanced

\* C3, amended: the same, for unassigned records with pairwise distinct keys.
C3_InitialSplitBalanced ==
  (Called /\ DOMAIN ArgE = {} /\ BatchKeysDistinct) => InitialSplitBalanced

\* C3's case: five records with distinct keys, so that the round robin wraps
C3_Witness ==
  /\ Called
  /\ DOMAIN ArgE = {}
  /\ BatchKeysDistinct
  /\ Len(Batch) = 5
  /\ \E t \in TeamSet : BatchSize(t) = 2

Spread4(teamCounts) ==
  LET counts == teamCounts
      hi == CHOOSE t \in TeamSet : \A u \in TeamSet : counts[u] <= counts[t]
      lo == CHOOSE t \in TeamSet : \A u \in TeamSet : counts[t] <= counts[u]
  IN  counts[hi] - counts[lo]

SpreadBefore == Spread4(teamCountsOf(callResult[2].conCoordinadores))
SpreadAfter == Spread4(teamCountsOf(ResA))

TopUpKeepsSpread ==
  SpreadAfter <= (IF SpreadBefore > 1 THEN SpreadBefore ELSE 1)

\* C4, as stated: after the top-up the largest and smallest group differ by
\* no more than the larger of 1 and their difference before it.
C4_AsStated == (Called /\ DOMAIN ArgE # {}) => TopUpKeepsSpread

\* C4, amended: the same, for new records with pairwise distinct keys.
C4_TopUpKeepsSpread ==
  (Called /\ DOMAIN ArgE # {} /\ BatchKeysDistinct) => TopUpKeepsSpread

\* C4's case: four new records placed into groups that were two apart
C4_Witness ==
  /\ Called
  /\ DOMAIN ArgE # {}
  /\ BatchKeysDistinct
  /\ Len(Batch) >= 4
  /\ SpreadBefore >= 2
  /\ SpreadAfter < SpreadBefore

\* the concatenation the round robin walked
AllShuffled == callResult[3]
ShuffledKey(i) == getParticipantKey(AllShuffled[i], ArgH)

\* the three cohorts of the batch, in the order of the concatenation
Cohorts == <<hombres(Batch), mujeres(Batch), otros(Batch)>>

\* where cohort c starts in the concatenation, 0-based
CohortStart(c) ==
  IF c = 1 THEN 0
  ELSE IF c = 2 THEN Len(Cohorts[1])
  ELSE Len(Cohorts[1]) + Len(Cohorts[2])

\* allShuffled is the male cohort, then the female, then the other, each in
\* some order
IsCohortConcatenation ==
  /\ Len(AllShuffled) = Len(Batch)
  /\ \A c \in 1..3 :
       \E f \in [1..Len(Cohorts[c]) -> 1..Len(Cohorts[c])] :
          /\ \A i, j \in 1..Len(Cohorts[c]) : f[i] = f[j] => i = j
          /\ \A i \in 1..Len(Cohorts[c]) :
               AllShuffled[CohortStart(c) + i] = Cohorts[c][f[i]]

\* the i-th record of the concatenation, from 0, has group i mod 4
IndexModGroupCount ==
  \A i \in 1..Len(AllShuffled) :
     /\ ShuffledKey(i) \in DOMAIN ResA
     /\ ResA[ShuffledKey(i)] = TEAM_NAMES[((i - 1) % Len(TEAM_NAMES)) + 1]

\* how many records of cohort c ended in group t
CohortSize(c, t) ==
  Cardinality({j \in 1..Len(Cohorts[c]) :
                 ResA[getParticipantKey(Cohorts[c][j], ArgH)] = t})

CohortsBalanced ==
  \A c \in 1..3 : \A t, u \in TeamSet : CohortSize(c, t) - CohortSize(c, u) <= 1

InitialSplitByIndex ==
  IsCohortConcatenation /\ IndexModGroupCount /\ CohortsBalanced

\* C20, as stated: in the initial split the i-th record of the concatenation
\* of the shuffled male, female and other cohorts has the group at index
\* i mod groupCount, and within each cohort the groups' member counts differ by
\* at most 1, for every outcome of the shuffles.
C20_AsStated == (Called /\ DOMAIN ArgE = {}) => InitialSplitByIndex

\* C20, amended: the same, for unassigned records with pairwise distinct keys.
C20_InitialSplitByIndex ==
  (Called /\ DOMAIN ArgE = {} /\ BatchKeysDistinct) => InitialSplitByIndex

\* C20's case: five records with distinct keys in two cohorts of two and one
\* more, a cohort that starts past the first group, and a shuffle that moved a
\* record
C20_Witness ==
  /\ Called
  /\ DOMAIN ArgE = {}
  /\ BatchKeysDistinct
  /\ Len(Batch) = 5
  /\ Len(Cohorts[1]) = 2
  /\ Len(Cohorts[2]) = 2
  /\ AllShuffled # Cohorts[1] \o Cohorts[2] \o Cohorts[3]
  /\ ResA[ShuffledKey(5)] = TEAM_NAMES[1]

\* position of group t in the fixed order TEAM_NAMES
TeamIndex(t) == CHOOSE i \in 1..Len(TEAM_NAMES) : TEAM_NAMES[i] = t

\* the counts the top-up starts from: the map with the overrides folded in
StartCounts == teamCountsOf(callResult[2].conCoordinadores)

\* the count of group t that record j of the batch sees, given the groups
\* chosen for the records before it
CountSeenBy(choice, j, t) ==
  StartCounts[t] + Cardinality({i \in 1..(j - 1) : choice[i] = t})

\* every record goes to the smallest group it sees, the first on a tie
FollowsTopUpRule(choice) ==
  \A j \in 1..Len(Batch) : \A u \in TeamSet :
     \/ CountSeenBy(choice, j, choice[j]) < CountSeenBy(choice, j, u)
     \/ /\ CountSeenBy(choice, j, choice[j]) = CountSeenBy(choice, j, u)
        /\ TeamIndex(choice[j]) <= TeamIndex(u)

\* the group chosen for each record of the batch, in input order
Chosen == callResult[2].smallestTeam

\* the map holds the map it started from and, for every key of the batch, the
\* group chosen for the last record of that key; every record counted once
IsOutcomeOf(choice) ==
  /\ DOMAIN ResA =
       DOMAIN callResult[2].conCoordinadores \cup {BatchKey(j) : j \in 1..Len(Batch)}
  /\ \A k \in DOMAIN ResA \ {BatchKey(j) : j \in 1..Len(Batch)} :
       ResA[k] = callResult[2].conCoordinadores[k]
  /\ \A j \in 1..Len(Batch) :
       (\A i \in (j + 1)..Len(Batch) : BatchKey(i) # BatchKey(j))
         => ResA[BatchKey(j)] = choice[j]
  /\ \A t \in TeamSet :
       callResult[2].teamCounts[t] = CountSeenBy(choice, Len(Batch) + 1, t)

RunDone == pc = "idle" /\ lastRun.importOk
MergedAttendance(r) == Spread(r.existingAttendance, r.localAttendance)

\* C5: in every sync run (load and reload) whose import succeeds, the
\* attendance shown in memory and the attendance handed to the remote write are
\* the union of remote and local attendance, local winning on shared keys.
C5_AsStated ==
  RunDone =>
    /\ lastRun.shownAttendance = MergedAttendance(lastRun)
    /\ lastRun.savedAttendance = MergedAttendance(lastRun)

\* a reload has run with remote attendance that the local cache lacks
C5_ReloadReached ==
  /\ RunDone
  /\ lastRun.kind = "reload"
  /\ DOMAIN lastRun.existingAttendance \ DOMAIN lastRun.localAttendance # {}

SameInputs(r1, r2) ==
  /\ r1.data = r2.data
  /\ r1.existingAssignments = r2.existingAssignments
  /\ r1.existingAttendance = r2.existingAttendance
  /\ r1.localAttendance = r2.localAttendance
  /\ r1.localPresent = r2.localPresent

\* C6: two load runs with the same roster, the same remote snapshot and the
\* same local cache end with the same assignments and the same attendance.
C6_AsStated ==
  [][(/\ lastRun' # lastRun
      /\ lastRun.kind = "loadData" /\ lastRun.importOk
      /\ lastRun'.kind = "loadData" /\ lastRun'.importOk
      /\ SameInputs(lastRun, lastRun'))
     => /\ lastRun'.assignments = lastRun.assignments
        /\ lastRun'.shownAttendance = lastRun.shownAttendance]_vars

\* a key that contains the name of an entry of COORDINADORES_FIJOS
IsOverrideKey(k) ==
  \E j \in 1..Len(COORDINADORES_FIJOS) : includes(k, toLowerCase(COORDINADORES_FIJOS[j][1]))

\* C8: with a credential and every remote read and write succeeding, a load
\* or reload never removes a non-override key from the remote assignment map
\* and never changes the group the map gives to it.
C8_RemoteAssignmentsMonotone ==
  [][\A k \in DOMAIN gist.assignments :
       ~IsOverrideKey(k) =>
         /\ k \in DOMAIN gist'.assignments
         /\ gist'.assignments[k] = gist.assignments[k]]_vars

\* a run read a remote map holding a non-override key and wrote back a larger one
C8_Witness ==
  /\ RunDone
  /\ lastRun.wroteRemote
  /\ \E k \in DOMAIN lastRun.existingAssignments : ~IsOverrideKey(k)
  /\ DOMAIN gist.assignments \ DOMAIN lastRun.existingAssignments # {}

ReadFailures == {"network", "notok", "missing", "malformed"}

LoadWriteFailed ==
  /\ pc = "idle"
  /\ GITHUB_TOKEN
  /\ lastRun.kind = "loadData"
  /\ lastRun.importOk
  /\ ~lastRun.wroteRemote

\* C11: a load whose remote write failed ends with no error state and no alert
\* about the write, with the teams and the attendance it computed in memory,
\* and with no write left pending.
C11_AsStated ==
  LoadWriteFailed =>
    /\ error = <<>>
    /\ "saveFailed" \notin alerts
    /\ teams # <<>>
    /\ ~loading
    /\ ops = 0 => (attendance = lastRun.shownAttendance /\ inflight = {})

\* C12: a load run is in the error state only if its roster import failed.
C12_AsStated ==
  (pc = "idle" /\ lastRun.kind = "loadData" /\ error # <<>>) => ~lastRun.importOk

\* the last run was a load whose import could not fetch the sheet or found no
\* data row in it (rows are only ever added to the sheet)
LoadImportFailed ==
  /\ pc = "idle"
  /\ lastRun.kind = "loadData"
  /\ \/ lastRun.importOutcome = "unreachable"
     \/ lastRun.importOutcome = "ok" /\ sheet = 0

\* C13: a load whose import failed ends in the error state with no teams set,
\* and the first load of a session has then sent no remote read and no remote
\* write.
C13_ImportFailureIsFatal ==
  LoadImportFailed =>
    /\ error # <<>>
    /\ teams = <<>>
    /\ ~loading
    /\ lastRun.readOutcome = "none" /\ ~lastRun.wroteRemote
    /\ ops = 0 => (~remoteReads /\ ~remoteWrites /\ inflight = {})

\* with a credential and a remote document that holds assignments, the sheet
\* has rows but cannot be fetched
C13_Witness ==
  /\ LoadImportFailed
  /\ GITHUB_TOKEN
  /\ gist.assignments # EmptyMap
  /\ sheet > 0
  /\ ops = 0

\* C14: when the remote write of a sync run (load or reload) succeeds, the
\* remote document is the assignment map assignTeams returned in that run
\* together with the merged attendance of that run.
C14_AsStated ==
  [][(pc = "write" /\ pc' = "idle" /\ lastRun'.wroteRemote)
     => gist' = GistDoc(lastRun'.assignments, MergedAttendance(lastRun'))]_vars

\* C15: when a sync run whose import succeeded ends, the attendance map of the
\* local cache (empty when there is no item) is the attendance map shown in
\* memory, whatever the answer to the remote write.
C15_AsStated ==
  [][(pc # "idle" /\ pc' = "idle" /\ lastRun'.importOk)
     => lsAttendance'.attendance = attendance']_vars

(***************************************************************************)
(* Properties of getParticipantKey (SpecKey)                               *)
(***************************************************************************)
\* the name values of the two rows, and whether they are equal up to letter
\* case and surrounding whitespace
NameP == Field(callArgs.p, ColNombre)
NameQ == Field(callArgs.q, ColNombre)
SameNameUpToCase == toLowerCase(trim(NameP)) = toLowerCase(trim(NameQ))

\* C16: two rows whose names are non-empty and equal up to letter case and
\* surrounding whitespace get the same key, whatever their other columns hold
\* and in whatever order the columns come; a repeated call returns the same
\* key.
C16_KeyFromNameAlone ==
  callResult # <<>> =>
    /\ callResult[3] = callResult[1]
    /\ (NameP # <<>> /\ NameQ # <<>> /\ SameNameUpToCase)
         => callResult[1] = callResult[2]

\* two rows that differ in letter case, whitespace, gender, payment and phone,
\* read under different column orders, got one key
C16_Witness ==
  /\ callResult # <<>>
  /\ NameP # NameQ /\ NameP # <<>> /\ NameQ # <<>> /\ SameNameUpToCase
  /\ Field(callArgs.p, ColCelular) # Field(callArgs.q, ColCelular)
  /\ Field(callArgs.p, ColPago) # Field(callArgs.q, ColPago)
  /\ callArgs.h1 # callArgs.h2
  /\ callArgs.h1[1] # ColNombre
  /\ callResult[1] = callResult[2]

(***************************************************************************)
(* Properties of toggleAttendance (Spec, SpecJsx)                          *)
(***************************************************************************)
\* the step is the answer to a PATCH of toggleAttendance that was stored
ToggleWriteStored == inflight' # inflight /\ inflight' \subseteq inflight /\ gist' # gist

\* C17: the remote write of an attendance toggle leaves the assignment map of
\* the remote document as it was.
C17_AsStated ==
  [][ToggleWriteStored => gist'.assignments = gist.assignments]_vars

\* the step is a call of toggleAttendance
ToggleStep == ops' # ops /\ pc' = "idle" /\ sheet' = sheet

\* the step is the answer, of any kind, to a PATCH of toggleAttendance
ToggleFlushAnswered == inflight' # inflight /\ inflight' \subseteq inflight

\* C18: a toggle flips one key in memory, leaves the value of every other key,
\* and stores the same map in the local cache; the answer to its remote write,
\* a failure included, changes neither memory nor the local cache.
C18_ToggleMemoryAndCache ==
  [][/\ ToggleStep =>
          /\ \E k \in DOMAIN attendance' :
               /\ attendance'[k] = ~(k \in DOMAIN attendance /\ attendance[k])
               /\ DOMAIN attendance' = DOMAIN attendance \cup {k}
               /\ \A j \in DOMAIN attendance \ {k} : attendance'[j] = attendance[j]
          /\ lsAttendance'.content = "json"
          /\ lsAttendance'.attendance = attendance'
     /\ ToggleFlushAnswered => UNCHANGED <<attendance, lsAttendance>>]_vars

\* a toggle changed a map that held another key, and its remote write failed
C18_Witness ==
  /\ pc = "idle"
  /\ GITHUB_TOKEN
  /\ lastRun.kind = "loadData"
  /\ ops = 1
  /\ remoteWrites
  /\ inflight = {}
  /\ attendance # lastRun.shownAttendance
  /\ DOMAIN lastRun.shownAttendance # {}
  /\ gist.attendance # attendance
  /\ lsAttendance.attendance = attendance

(***************************************************************************)
(* The rosters of one assignTeams call (SpecAssign)                        *)
(***************************************************************************)
\* the positions of the input whose record the filter keeps and whose key the
\* returned map sends to group t
PlacedIn(t) ==
  {i \in 1..Len(ArgP) :
     /\ ~IsStaff(ArgP[i], ArgH)
     /\ KeyOf(i) \in DOMAIN ResA
     /\ ResA[KeyOf(i)] = t}

\* the j-th position of S in increasing order
NthOf(S, j) == CHOOSE i \in S : Cardinality({x \in S : x <= i}) = j

\* C21: the roster of each fixed group holds, once each and in input order,
\* the records the filter keeps whose key the returned map sends to that group;
\* a kept record whose key has no entry, or an entry that is no fixed group, is
\* in no roster.
C21_RostersFollowMap ==
  Called =>
    /\ DOMAIN ResT = TeamSet
    /\ \A t \in TeamSet :
         /\ Len(ResT[t]) = Cardinality(PlacedIn(t))
         /\ \A j \in 1..Len(ResT[t]) : ResT[t][j] = ArgP[NthOf(PlacedIn(t), j)]
    /\ \A i \in 1..Len(ArgP) :
         (KeyOf(i) \notin DOMAIN ResA \/ ResA[KeyOf(i)] \notin TeamSet)
           => ~InSomeRoster(i)

\* C21's case: a roster of two records next to a kept record whose entry
\* names no fixed group
C21_Witness ==
  /\ Called
  /\ \E t \in TeamSet : Len(ResT[t]) = 2 /\ ResT[t][1] # ResT[t][2]
  /\ \E i \in 1..Len(ArgP) :
       /\ ~IsStaff(ArgP[i], ArgH)
       /\ KeyOf(i) \in DOMAIN ResA
       /\ ResA[KeyOf(i)] \notin TeamSet
       /\ ~InSomeRoster(i)

(***************************************************************************)
(* Values of the assignment maps (Spec)                                    *)
(***************************************************************************)
AllFixedGroups(assignments) ==
  \A k \in DOMAIN assignments : assignments[k] \in TeamSet

\* every value that is no fixed group is the value `existing` held for the key
FixedOrCarried(assignments, existing) ==
  \A k \in DOMAIN assignments :
     \/ assignments[k] \in TeamSet
     \/ k \in DOMAIN existing /\ existing[k] = assignments[k]

\* the step ends a sync run in which assignTeams returned
RunReturns == pc # "idle" /\ pc' = "idle" /\ lastRun'.importOk

\* C22, as stated: the map assignTeams returns in a sync run, and the
\* assignment map of every document stored in the remote file, map every key to
\* a fixed group, whatever the remote document read held.
C22_AsStated ==
  [][/\ RunReturns => AllFixedGroups(lastRun'.assignments)
     /\ gist' # gist => AllFixedGroups(gist'.assignments)]_vars

\* C22, amended: they map every key to a fixed group or to the value the
\* remote document read as existingAssignments held for that key.
C22_FixedOrCarried ==
  [][/\ RunReturns =>
          FixedOrCarried(lastRun'.assignments, lastRun'.existingAssignments)
     /\ gist' # gist =>
          FixedOrCarried(gist'.assignments, lastRun'.existingAssignments)]_vars

\* C22's case: a run that read a value that is no group has stored a document
\* that holds it next to the groups of an override and of a new record
C22_Witness ==
  /\ pc = "idle"
  /\ lastRun.importOk
  /\ lastRun.wroteRemote
  /\ ~AllFixedGroups(lastRun.existingAssignments)
  /\ gist.assignments = lastRun.assignments
  /\ Cardinality({k \in DOMAIN gist.assignments : gist.assignments[k] \in TeamSet}) >= 2
  /\ ~AllFixedGroups(gist.assignments)

(***************************************************************************)
(* assignTeams with no group or one group (SpecGroups)                     *)
(***************************************************************************)
\* C23: with TEAM_NAMES empty or of one name, assignTeams returns without
\* raising on the initial-split path and on the top-up path, and with one name
\* every unassigned record has that name as its entry.
C23_AsStated ==
  Called =>
    /\ ~callResult[1].threw
    /\ Len(callArgs.teamNames) = 1 =>
         \A j \in 1..Len(Batch) :
            /\ BatchKey(j) \in DOMAIN ResA
            /\ ResA[BatchKey(j)] = callArgs.teamNames[1]

(***************************************************************************)
(* Shape of the documents stored in the remote file (Spec, SpecJsx)        *)
(***************************************************************************)
\* C24: every document a load run or a toggle stores in the remote file is one
\* JSON object with an 'assignments' map and an 'attendance' map.
C24_AsStated ==
  [][gist' # gist =>
       /\ gist'.content = "json"
       /\ {"assignments", "attendance"} \subseteq DOMAIN gist']_vars

(***************************************************************************)
(* A load run whose remote read failed (Spec)                              *)
(***************************************************************************)
\* the step stores the document of a load run whose GET of the remote file
\* failed and was answered with the empty maps
LoadWritesAfterFailedRead ==
  /\ pc = "write"
  /\ pc' = "idle"
  /\ lastRun'.kind = "loadData"
  /\ lastRun'.readOutcome \in {"network", "notok"}
  /\ lastRun'.wroteRemote

\* C25: when the remote read of a load run fails and its remote write
\* succeeds, every key the remote document mapped to a group before is mapped
\* to the same group after.
C25_AsStated ==
  [][LoadWritesAfterFailedRead =>
       \A k \in DOMAIN gist.assignments :
          gist.assignments[k] \in TeamSet =>
            /\ k \in DOMAIN gist'.assignments
            /\ gist'.assignments[k] = gist.assignments[k]]_vars

(***************************************************************************)
(* Toggles whose remote writes all succeed (SpecToggles)                   *)
(***************************************************************************)
\* C26: for one client whose toggles' remote writes all succeed, in any order
\* of completion, the attendance of the remote document equals the attendance
\* in memory whenever no write is in flight.
C26_AsStated ==
  (pc = "idle" /\ lastRun.importOk /\ inflight = {}) =>
     gist.attendance = attendance

(***************************************************************************)
(* The end of the initial load (SpecAnswered)                              *)
(***************************************************************************)
\* loadData is waiting for an answer
LoadRunning == pc # "idle" /\ run.kind = "loadData"

\* teams holds a roster for each name of TEAM_NAMES
RosterPerGroup == teams # <<>> /\ DOMAIN teams[1] = TeamSet

\* C27: when every request is answered, a running initial load leads to
\* loading = false; and whenever loading is false and no error is set, teams
\* holds a roster for each fixed group.
C27_LoadEndsWithRosters ==
  /\ LoadRunning ~> ~loading
  /\ []((~loading /\ error = <<>>) => RosterPerGroup)

\* C27's case: an initial load whose remote read and write both failed has
\* ended with loading false, no error and the rosters
C27_Witness ==
  /\ pc = "idle"
  /\ ~loading
  /\ error = <<>>
  /\ GITHUB_TOKEN
  /\ lastRun.kind = "loadData"
  /\ lastRun.readOutcome = "network"
  /\ ~lastRun.wroteRemote
  /\ RosterPerGroup

(***************************************************************************)
(* The running counts of the top-up (SpecBalance)                          *)
(***************************************************************************)
\* the map and the counts at the end of each iteration of the top-up
AfterEach == callResult[2].afterEach

\* the counts kept are the numbers of keys the map sends to each group
CountsMatchMap(step) ==
  \A t \in TeamSet :
     step.teamCounts[t] =
       Cardinality({k \in DOMAIN step.assignments : step.assignments[k] = t})

CountsMatchAfterEach ==
  /\ Len(AfterEach) = Len(Batch)
  /\ \A j \in 1..Len(AfterEach) : CountsMatchMap(AfterEach[j])

\* C28, as stated: in the top-up, after each record is placed, the count kept
\* for every group is the number of keys the map sends to that group, for
\* every batch, batches in which two records share a key included.
C28_AsStated == (Called /\ DOMAIN ArgE # {}) => CountsMatchAfterEach

\* C28, amended: the same, for batches of records with pairwise distinct keys.
C28_CountsMatchMap ==
  (Called /\ DOMAIN ArgE # {} /\ BatchKeysDistinct) => CountsMatchAfterEach

\* C28's case: three records with distinct keys placed on top of a map that
\* already sent a key to a group
C28_Witness ==
  /\ Called
  /\ DOMAIN ArgE # {}
  /\ BatchKeysDistinct
  /\ Len(AfterEach) >= 3
  /\ \E t \in TeamSet : StartCounts[t] > 0
  /\ \E t \in TeamSet : AfterEach[3].teamCounts[t] >= 2

====
